---- MODULE Spec2Model ----
(***************************************************************************)
(* Round-based generation-and-publication pipeline of the TDS auto-deploy  *)
(* service: main.py (process_task), services/github_service.py             *)
(* (GitHubService), services/llm_service.py (LLMService) and               *)
(* services/utils.py (the task ledger, state.json).                        *)
(*                                                                         *)
(* Text is modelled as a sequence of tokens (a file content, a check       *)
(* string); a Python dict is modelled as a sequence of <<key, value>>      *)
(* pairs with distinct keys, in insertion order.                           *)
(***************************************************************************)
EXTENDS Integers, Sequences, FiniteSets, TLC

(***************************************************************************)
(* Bounds of the model.                                                    *)
(***************************************************************************)
\* number of requests the service receives in one behaviour
MaxRequests == 2
\* highest round number a request carries
MaxRound == 2

(***************************************************************************)
(* Python dict (insertion ordered).                                        *)
(***************************************************************************)
EmptyDict == << >>

DictDomain(d) == {d[i][1] : i \in 1..Len(d)}

DictHas(d, k) == k \in DictDomain(d)

DictGet(d, k) == d[CHOOSE i \in 1..Len(d) : d[i][1] = k][2]

DictKeys(d) == [i \in 1..Len(d) |-> d[i][1]]

\* d[k] = v : an existing key keeps its position, a new key goes last
DictSet(d, k, v) ==
    IF DictHas(d, k)
    THEN [i \in 1..Len(d) |-> IF d[i][1] = k THEN <<k, v>> ELSE d[i]]
    ELSE Append(d, <<k, v>>)

RECURSIVE DictUpdate(_, _)
\* d.update(e), also: for k, v in e: d[k] = v
DictUpdate(d, e) ==
    IF e = << >> THEN d
    ELSE DictUpdate(DictSet(d, Head(e)[1], Head(e)[2]), Tail(e))

\* {k: v for k, v in d.items() if k != drop}
DictWithout(d, drop) == SelectSeq(d, LAMBDA kv : kv[1] # drop)

(***************************************************************************)
(* Text helpers: str.lower, str.strip, substring search, on tokens.        *)
(***************************************************************************)
WhiteSpace == {"\n", " "}

LowerTok(t) ==
    CASE t = "<HTML>"  -> "<html>"
      [] t = "</HTML>" -> "</html>"
      [] t = "</Html>" -> "</html>"
      [] t = "<BODY>"  -> "<body>"
      [] t = "</BODY>" -> "</body>"
      [] t = "MIT"     -> "mit"
      [] t = "Mit"     -> "mit"
      [] t = "License" -> "license"
      [] t = "LICENSE" -> "license"
      [] t = "Public"  -> "public"
      [] OTHER         -> t

Lower(s) == [i \in 1..Len(s) |-> LowerTok(s[i])]

RECURSIVE RStrip(_)
RStrip(s) ==
    IF s # << >> /\ s[Len(s)] \in WhiteSpace
    THEN RStrip(SubSeq(s, 1, Len(s) - 1)) ELSE s

RECURSIVE LStrip(_)
LStrip(s) ==
    IF s # << >> /\ Head(s) \in WhiteSpace THEN LStrip(Tail(s)) ELSE s

Strip(s) == LStrip(RStrip(s))

\* s.endswith(t) for a one-token t
EndsWith(s, t) == s # << >> /\ s[Len(s)] = t

\* sub in s, for a token sequence sub
Contains(s, sub) ==
    \E i \in 1..(Len(s) - Len(sub) + 1) : SubSeq(s, i, i + Len(sub) - 1) = sub

\* "<html" in s : the opening root tag, whatever follows the tag name
ContainsOpenHtml(s) == \E i \in 1..Len(s) : s[i] \in {"<html>", "<html lang>"}

(***************************************************************************)
(* json.dumps(d, indent=2) and json.loads, on tokens.  A JSON string is    *)
(* the three tokens quote, text, quote.                                    *)
(***************************************************************************)
Q == "\""

RECURSIVE DumpItems(_)
DumpItems(d) ==
    IF d = << >> THEN << >>
    ELSE <<Q, Head(d)[1], Q, ":", " ", Q, Head(d)[2], Q>>
         \o (IF Len(d) > 1 THEN <<",", "\n">> ELSE <<"\n">>)
         \o DumpItems(Tail(d))

JsonDumps(d) ==
    IF d = << >> THEN <<"{", "}">> ELSE <<"{", "\n">> \o DumpItems(d) \o <<"}">>

RECURSIVE ParsePairs(_, _, _)
\* the members of a JSON object from token i on; a repeated key keeps the
\* last value
ParsePairs(t, i, acc) ==
    IF /\ i + 6 <= Len(t)
       /\ t[i] = Q /\ t[i + 2] = Q /\ t[i + 3] = ":"
       /\ t[i + 4] = Q /\ t[i + 6] = Q
       /\ t[i + 1] # Q /\ t[i + 5] # Q
    THEN LET acc2 == DictSet(acc, t[i + 1], t[i + 5])
         IN  IF i + 6 = Len(t) THEN [ok |-> TRUE, val |-> acc2]
             ELSE IF t[i + 7] = "," THEN ParsePairs(t, i + 8, acc2)
             ELSE [ok |-> FALSE, val |-> EmptyDict]
    ELSE [ok |-> FALSE, val |-> EmptyDict]

\* json.loads of an object literal: [ok, val]; ok = FALSE is JSONDecodeError
JsonLoads(text) ==
    LET t == SelectSeq(text, LAMBDA x : x \notin WhiteSpace)
    IN  IF Len(t) < 2 \/ t[1] # "{" \/ t[Len(t)] # "}"
        THEN [ok |-> FALSE, val |-> EmptyDict]
        ELSE IF Len(t) = 2 THEN [ok |-> TRUE, val |-> EmptyDict]
        ELSE ParsePairs(SubSeq(t, 2, Len(t) - 1), 1, EmptyDict)

(***************************************************************************)
(* The attachment manifest attachments.js (main.py, steps 3 and 4).        *)
(***************************************************************************)
RECURSIVE SkipWs(_, _)
\* \s* : the first index from i on that holds no white space
SkipWs(s, i) ==
    IF i <= Len(s) /\ s[i] \in WhiteSpace THEN SkipWs(s, i + 1) ELSE i

\* where  window\.attachments\s*=\s*{  matches at i: the index of the brace,
\* 0 when it does not match
BraceAt(s, i) ==
    IF s[i] # "window.attachments" THEN 0
    ELSE LET e == SkipWs(s, i + 1)
         IN  IF e > Len(s) \/ s[e] # "=" THEN 0
             ELSE LET b == SkipWs(s, e + 1)
                  IN  IF b > Len(s) \/ s[b] # "{" THEN 0 ELSE b

\* the indices j of a closing brace that  .+})\s*;  can end at, for the
\* opening brace at b
BraceEnds(s, b) ==
    {j \in (b + 2)..Len(s) :
        /\ s[j] = "}"
        /\ SkipWs(s, j + 1) <= Len(s)
        /\ s[SkipWs(s, j + 1)] = ";"}

Max(S) == CHOOSE x \in S : \A y \in S : y <= x

Min(S) == CHOOSE x \in S : \A y \in S : x <= y

\* re.search(r'window\.attachments\s*=\s*({.+})\s*;', js_content, re.DOTALL):
\* [found, group], the leftmost match, its group greedy
ManifestSearch(s) ==
    LET starts == {i \in 1..Len(s) :
                     BraceAt(s, i) # 0 /\ BraceEnds(s, BraceAt(s, i)) # {}}
    IN  IF starts = {} THEN [found |-> FALSE, group |-> << >>]
        ELSE LET b == BraceAt(s, Min(starts))
             IN  [found |-> TRUE,
                  group |-> SubSeq(s, b, Max(BraceEnds(s, b)))]

\* the attachments recovered from the previous round's files
LoadExistingAttachments(existing_files) ==
    IF DictHas(existing_files, "attachments.js")
    THEN LET m == ManifestSearch(DictGet(existing_files, "attachments.js"))
         IN  IF m.found /\ JsonLoads(m.group).ok
             THEN JsonLoads(m.group).val ELSE EmptyDict
    ELSE EmptyDict

\* attachments_dict after the loop over request.attachments
MergeAttachments(existing_files, attachments) ==
    DictUpdate(LoadExistingAttachments(existing_files), attachments)

\* the text of attachments.js for a non-empty attachments_dict
ManifestText(attachments_dict) ==
    <<"// Auto-generated attachments file", "\n",
      "// Access attachments via:", " ",
      "window.attachments", "[", Q, "filename.ext", Q, "]", "\n",
      "window.attachments", " ", "=", " ">>
    \o JsonDumps(attachments_dict) \o <<";", "\n">>

\* attachments_js_content; << >> stands for None
AttachmentsJsContent(attachments_dict) ==
    IF attachments_dict # EmptyDict THEN ManifestText(attachments_dict)
    ELSE << >>

(***************************************************************************)
(* Snapshot assembly (main.py, step 6).                                    *)
(***************************************************************************)
\* utils.get_mit_license()
MitLicense == <<"MIT", "License", "\n", "Copyright (c) 2025">>

\* the fallback README.md, built from the repository name and the checks
BasicReadme(repo_name, checks) ==
    <<"# ", repo_name, "\n", "## Evaluation Criteria">>
    \o [i \in 1..Len(checks) |-> "- check"]

\* a mistaken merge: the existing files are laid over the generated ones
MergeFilesExistingWins(round, existing_files, generated_files) ==
    DictUpdate(generated_files,
               IF round > 1 THEN DictWithout(existing_files, "attachments.js")
               ELSE EmptyDict)

\* all_files after the existing files are copied and the generated files
\* are laid over them
MergeFiles(round, existing_files, generated_files) ==
    DictUpdate(IF round > 1 THEN DictWithout(existing_files, "attachments.js")
               ELSE EmptyDict,
               generated_files)

\* a mistaken truncation check: the tags are looked for in the text as it
\* is, not in its lower-case form
CloseHtmlCaseSensitive(html_content) ==
    IF /\ ~EndsWith(Strip(html_content), "</html>")
       /\ ~EndsWith(Strip(html_content), "</HTML>")
       /\ ContainsOpenHtml(html_content)
       /\ ~Contains(html_content, <<"</html>">>)
    THEN html_content \o <<"\n", "</body>", "\n", "</html>">>
    ELSE html_content

\* the index.html text after the truncation check
CloseHtml(html_content) ==
    IF /\ ~EndsWith(Strip(html_content), "</html>")
       /\ ~EndsWith(Strip(html_content), "</HTML>")
       /\ ContainsOpenHtml(Lower(html_content))
       /\ ~Contains(Lower(html_content), <<"</html>">>)
    THEN html_content \o <<"\n", "</body>", "\n", "</html>">>
    ELSE html_content

\* all_files["index.html"] rewritten when the truncation check closed it
WithClosedHtml(all_files) ==
    LET html_content == DictGet(all_files, "index.html")
    IN  IF CloseHtml(html_content) # html_content
        THEN DictSet(all_files, "index.html", CloseHtml(html_content))
        ELSE all_files

\* if attachments_js_content: all_files["attachments.js"] = ...
WithManifest(all_files, attachments_js_content) ==
    IF attachments_js_content # << >>
    THEN DictSet(all_files, "attachments.js", attachments_js_content)
    ELSE all_files

\* any("mit license" in check.lower() for check in request.checks)
MitLicenseRequired(checks) ==
    \E i \in 1..Len(checks) : Contains(Lower(checks[i]), <<"mit", "license">>)

\* a mistaken license step: the license is added only when a check asks
WithLicenseOnlyOnRequest(all_files, checks) ==
    IF MitLicenseRequired(checks)
    THEN DictSet(all_files, "LICENSE", MitLicense)
    ELSE all_files

\* if mit_license_required or "LICENSE" not in all_files: add the license
WithLicense(all_files, checks) ==
    IF MitLicenseRequired(checks) \/ ~DictHas(all_files, "LICENSE")
    THEN DictSet(all_files, "LICENSE", MitLicense)
    ELSE all_files

\* if "README.md" not in all_files: add the fallback README
WithReadme(all_files, repo_name, checks) ==
    IF ~DictHas(all_files, "README.md")
    THEN DictSet(all_files, "README.md", BasicReadme(repo_name, checks))
    ELSE all_files

\* "index.html" not in all_files: the round fails
MissingIndex(all_files) == ~DictHas(all_files, "index.html")

\* the files handed to commit_files, for merged files that hold index.html
FinalFiles(merged, attachments_js_content, checks, repo_name) ==
    WithReadme(
        WithLicense(
            WithManifest(WithClosedHtml(merged), attachments_js_content),
            checks),
        repo_name, checks)

(***************************************************************************)
(* Inputs: task names, checks, attachments and model replies.              *)
(***************************************************************************)
Tasks == {"t1", "t2"}

\* the handler instances the server can hold at the same time
MaxInFlight == 2

Procs == 1..MaxInFlight

Rounds == 1..MaxRound

CheckLists ==
    { << <<"must", "have", "a", "button">> >>,
      << <<"has", "MIT", "License">>, <<"must", "have", "a", "button">> >> }

AttachmentLists ==
    { << >>,
      << <<"a", "u1">> >>,
      << <<"a", "u2">>, <<"b", "u1">> >> }

HtmlGood == <<"<html>", "<body>", "Hi", "</body>", "</html>", "\n">>

HtmlTruncated == <<"<html>", "<body>", "Hi", "</body>">>

\* an attachments.js written by the model: the search finds a literal that
\* json.loads rejects
JunkManifest == <<"window.attachments", " ", "=", " ", "{", "oops", "}", ";">>

(***************************************************************************)
(* LLMService._parse_response, on tokens.  A reply is a sequence of        *)
(* tokens; a JSON string is quote, literal, quote, and the literal of a     *)
(* file content stands for the text it unescapes to.  The literals hold no *)
(* brace and no quote.                                                     *)
(***************************************************************************)
\* the text a string literal of a reply unescapes to
Unescape(literal) ==
    CASE literal = "html_good"      -> HtmlGood
      [] literal = "html_truncated" -> HtmlTruncated
      [] literal = "readme"         -> <<"# App">>
      [] literal = "css"            -> <<"body{}">>
      [] literal = "apache"         -> <<"Apache">>
      [] literal = "junk_manifest"  -> JunkManifest
      [] OTHER                      -> <<literal>>

\* the mapping json.loads returns for an object of string literals
DecodeValues(d) == [i \in 1..Len(d) |-> <<d[i][1], Unescape(d[i][2])>>]

\* response.strip(), the leading fence (three backquotes, with or without
\* json) and the trailing one removed, strip() again
StripFences(response) ==
    LET r == Strip(response)
        h == IF r # << >> /\ Head(r) \in {"[fence json]", "[fence]"} THEN Tail(r) ELSE r
        t == IF EndsWith(h, "[fence]") THEN SubSeq(h, 1, Len(h) - 1) ELSE h
    IN  Strip(t)

RECURSIVE MatchEnd(_, _, _)
\* where  \{[^{}]*(?:\{[^{}]*\}[^{}]*)*\}  ends for the brace opened before
\* j, at nesting depth d; 0 when it does not match
MatchEnd(s, j, d) ==
    IF j > Len(s) THEN 0
    ELSE IF s[j] = "{" THEN (IF d = 2 THEN 0 ELSE MatchEnd(s, j + 1, 2))
    ELSE IF s[j] = "}" THEN (IF d = 1 THEN j ELSE MatchEnd(s, j + 1, 1))
    ELSE MatchEnd(s, j + 1, d)

RECURSIVE BraceSpans(_, _)
\* re.finditer of that pattern from i on: the matches, left to right,
\* none overlapping another
BraceSpans(s, i) ==
    IF i > Len(s) THEN << >>
    ELSE IF s[i] = "{" /\ MatchEnd(s, i + 1, 1) # 0
         THEN <<SubSeq(s, i, MatchEnd(s, i + 1, 1))>>
              \o BraceSpans(s, MatchEnd(s, i + 1, 1) + 1)
         ELSE BraceSpans(s, i + 1)

\* key.endswith(.html)
EndsWithHtml(key) == key \in {"index.html", "about.html"}

\* the candidates the second stage accepts: they parse to a mapping with
\* an .html key
HtmlCandidates(s) ==
    SelectSeq(BraceSpans(s, 1),
              LAMBDA c : /\ JsonLoads(c).ok
                         /\ \E k \in DictDomain(JsonLoads(c).val) : EndsWithHtml(k))

\* re.sub(r',(\s*[}\]])', r'\1', json_str): the commas before a closing
\* brace or bracket are removed
WithoutTrailingCommas(s) ==
    LET keep == {i \in 1..Len(s) :
                   ~ (/\ s[i] = ","
                      /\ SkipWs(s, i + 1) <= Len(s)
                      /\ s[SkipWs(s, i + 1)] \in {"}", "]"})}
        F[i \in 0..Len(s)] ==
            IF i = 0 THEN << >>
            ELSE IF i \in keep THEN Append(F[i - 1], s[i]) ELSE F[i - 1]
    IN  F[Len(s)]

\* response[start:end+1] from the first opening to the last closing brace,
\* repaired; << >> when the braces are missing or out of order
OuterJson(s) ==
    LET opens == {i \in 1..Len(s) : s[i] = "{"}
        closes == {i \in 1..Len(s) : s[i] = "}"}
    IN  IF opens # {} /\ closes # {} /\ Max(closes) > Min(opens)
        THEN WithoutTrailingCommas(SubSeq(s, Min(opens), Max(closes)))
        ELSE << >>

\* the extensions of the last stage: html, css, js, md
RecognizedName(name) ==
    name \in {"index.html", "about.html", "style.css", "attachments.js",
              "README.md"}

\* where  "name.ext"\s*:\s*"content"  matches at i: the index of its last
\* quote, 0 when it does not match
PairEnd(s, i) ==
    IF i + 2 > Len(s) \/ s[i] # Q \/ s[i + 2] # Q \/ ~RecognizedName(s[i + 1])
    THEN 0
    ELSE LET c == SkipWs(s, i + 3)
         IN  IF c > Len(s) \/ s[c] # ":" THEN 0
             ELSE LET v == SkipWs(s, c + 1)
                  IN  IF v + 2 > Len(s) \/ s[v] # Q \/ s[v + 2] # Q
                         \/ s[v + 1] = Q
                      THEN 0 ELSE v + 2

RECURSIVE ScanPairs(_, _, _)
\* re.findall of the pair pattern from i on, collected into files
ScanPairs(s, i, files) ==
    IF i > Len(s) THEN files
    ELSE IF PairEnd(s, i) # 0
         THEN ScanPairs(s, PairEnd(s, i) + 1,
                        DictSet(files, s[i + 1], Unescape(s[PairEnd(s, i) - 1])))
         ELSE ScanPairs(s, i + 1, files)

\* _parse_response: [ok, files]; ok = FALSE is the ValueError of the end
ParseResponse(response) ==
    LET r == StripFences(response)
        direct == JsonLoads(r)
        found == HtmlCandidates(r)
        outer == JsonLoads(OuterJson(r))
        pairs == ScanPairs(r, 1, EmptyDict)
    IN  IF direct.ok THEN [ok |-> TRUE, files |-> DecodeValues(direct.val)]
        ELSE IF found # << >>
             THEN [ok |-> TRUE, files |-> DecodeValues(JsonLoads(Head(found)).val)]
        ELSE IF outer.ok THEN [ok |-> TRUE, files |-> DecodeValues(outer.val)]
        ELSE IF pairs # EmptyDict THEN [ok |-> TRUE, files |-> pairs]
        ELSE [ok |-> FALSE, files |-> EmptyDict]

\* "name": "literal" as the model writes it
Member(name, literal) == <<Q, name, Q, ":", " ", Q, literal, Q>>

\* the reply texts of the model: well-formed objects (one of them fenced),
\* the empty object, an object after a sentence, an object with a trailing
\* comma, pairs without braces, a sentence with a lone "{,}", a sentence
\* without any object, a list
ReplyTexts ==
    { <<"{", "}">>,
      <<"{">> \o Member("index.html", "html_good") \o <<"}">>,
      <<"[fence json]", "\n", "{">> \o Member("index.html", "html_truncated")
          \o <<",", "\n">> \o Member("README.md", "readme")
          \o <<"}", "\n", "[fence]">>,
      <<"{">> \o Member("style.css", "css") \o <<",">>
          \o Member("index.html", "html_good") \o <<",">>
          \o Member("LICENSE", "apache") \o <<",">>
          \o Member("attachments.js", "junk_manifest") \o <<"}">>,
      <<"Here is the app:", "\n", "{">>
          \o Member("index.html", "html_good") \o <<"}", "\n", "Enjoy">>,
      <<"{">> \o Member("index.html", "html_good") \o <<",", "\n", "}">>,
      Member("index.html", "html_good") \o <<",">>
          \o Member("LICENSE", "apache"),
      <<"Nothing to change:", " ", "{", ",", "}">>,
      <<"I cannot help with that">>,
      <<"[", "]">> }

\* the file mappings generate_code can return, in the reply's key order
Replies == { ParseResponse(t).files : t \in {u \in ReplyTexts : ParseResponse(u).ok} }

\* entry-point texts a reply can hold: complete, cut off, in upper case,
\* with an attribute in the root tag, without a root tag, with text after
\* the closing tag
EntryPoints ==
    { HtmlGood,
      HtmlTruncated,
      <<"<html>", "<body>", "Hi", "</body>", "</html>">>,
      <<"<HTML>", "<BODY>", "Hi", "</BODY>", "</HTML>">>,
      <<"<HTML>", "<BODY>", "Hi">>,
      <<"<html lang>", "<body>", "Hi", "\n">>,
      <<"<body>", "Hi", "</body>">>,
      <<"<html>", "Hi", "</Html>">>,
      <<"<html>", "Hi", "</html>", "<!-- end -->">> }

\* replies that hold an entry point only
EntryPointReplies == { << <<"index.html", h>> >> : h \in EntryPoints }

\* the ways generate_code raises: ValueError (truncated reply, unparsable
\* reply) or any other exception (transport error, HTTP status)
GenerationErrors == {"ValueError", "Exception"}

\* the top-level listing of a repository, in the order the store returns it
PathOrder == <<"LICENSE", "README.md", "attachments.js", "index.html", "style.css">>

(***************************************************************************)
(* State.                                                                  *)
(***************************************************************************)
VARIABLES
    repos,            \* the content store: task name -> repository
    ledger,           \* state.json: task name -> task info
    pc,               \* where each handler instance is in process_task
    request,          \* the TaskRequest the instance handles
    existing_files,   \* process_task local
    generated_files,  \* process_task local
    all_files,        \* process_task local, the files handed to commit_files
    repo_empty,       \* commit_files local
    new_commit,       \* commit_files local: sha of the commit object created
    commit_sha,       \* process_task local: what commit_files returned
    outcome,          \* the response the instance sent last
    log,              \* the calls the instance made for its request, in order
    entry_history,    \* length of the branch history when commit_files began
    pages_result,     \* how enable_github_pages ended
    submitted,        \* per task: the attachments of the successful rounds
    nreq,             \* requests received so far
    at_start          \* what was published and recorded when the request
                      \* arrived, kept until its files are generated

vars == <<repos, ledger, pc, request, existing_files, generated_files,
          all_files, repo_empty, new_commit, commit_sha, outcome, log,
          entry_history, pages_result, submitted, nreq, at_start>>

locals == <<existing_files, generated_files, all_files, repo_empty,
            new_commit, commit_sha, entry_history>>

(***************************************************************************)
(* The content store (the GitHub repository of a task).                    *)
(***************************************************************************)
EmptyTree == << >>

NoRepo == [exists |-> FALSE, commits |-> {}, ref |-> 0]

\* create_repo(auto_init=False): a repository without a branch
FreshRepo == [exists |-> TRUE, commits |-> {}, ref |-> 0]

CommitOf(repo, sha) == CHOOSE c \in repo.commits : c.sha = sha

TipTree(repo) ==
    IF repo.ref = 0 THEN EmptyTree ELSE CommitOf(repo, repo.ref).tree

RECURSIVE HistoryFrom(_, _)
\* the revisions reachable from sha through first parents, newest first
HistoryFrom(repo, sha) ==
    IF sha = 0 THEN << >>
    ELSE LET c == CommitOf(repo, sha)
         IN  <<sha>> \o HistoryFrom(repo, IF c.parents = << >> THEN 0
                                          ELSE c.parents[1])

BranchHistory(repo) == HistoryFrom(repo, repo.ref)

\* create_git_tree(elements, base_tree): the elements laid over the base
LayerTree(base_tree, elements) ==
    [k \in DOMAIN base_tree \cup DictDomain(elements) |->
        IF DictHas(elements, k) THEN DictGet(elements, k) ELSE base_tree[k]]

\* get_existing_files on a branch: path -> content, in listing order
TreeToDict(tree) ==
    LET ks == SelectSeq(PathOrder, LAMBDA k : k \in DOMAIN tree)
    IN  [i \in 1..Len(ks) |-> <<ks[i], tree[ks[i]]>>]

\* a commit object; files records the mapping commit_files was called with
NewCommit(sha, tree, parents, files) ==
    [sha |-> sha, tree |-> tree, parents |-> parents, files |-> files]

(***************************************************************************)
(* The task ledger (utils.py).                                             *)
(***************************************************************************)
\* load_state().get(task_id) is None
NoTaskInfo(state, task_id) == task_id \notin DOMAIN state

\* a mistaken update: the state is built anew instead of loaded, so the
\* save drops the entries of the other tasks
UpdateTaskInfoFresh(state, task_id, info) == [t \in {task_id} |-> info]

\* update_task_info: load_state, state[task_id] = info, save_state
UpdateTaskInfo(state, task_id, info) ==
    [t \in DOMAIN state \cup {task_id} |->
        IF t = task_id THEN info ELSE state[t]]

RepoUrl(repo_name) == <<"https://github.com/", "sanat-garg", "/", repo_name>>

PagesUrl(repo_name) == <<"https://", "sanat-garg", ".github.io/", repo_name, "/">>

TaskInfo(repo_name, sha, round) ==
    [repo_name |-> repo_name, repo_url |-> RepoUrl(repo_name),
     commit_sha |-> sha, pages_url |-> PagesUrl(repo_name),
     last_round |-> round]

(***************************************************************************)
(* process_task (main.py), one action per call it makes.  The handler is   *)
(* a coroutine whose only suspension point is the awaited notification     *)
(* post: every other call blocks the event loop, so a second request is    *)
(* taken up only while every other instance is idle or awaits its post.    *)
(***************************************************************************)
NoRequest ==
    [task |-> "", round |-> 0, nonce |-> 0, attachments |-> << >>,
     checks |-> << >>]

NoOutcome == [status |-> 0, detail |-> << >>, commit_sha |-> 0]

\* the branch tip's tree of the task's repository and the task's ledger
\* entry, as they are when a request for the task arrives
Snapshot(store, state, task_id) ==
    [tree |-> TipTree(store[task_id]),
     entry |-> IF NoTaskInfo(state, task_id) THEN << >> ELSE <<state[task_id]>>]

NoSnapshot == [tree |-> EmptyTree, entry |-> << >>]

\* the requests that can arrive as the n-th one; the nonce tells them apart
Requests(tasks, n) ==
    [task : tasks, round : Rounds, nonce : {n}, attachments : AttachmentLists,
     checks : CheckLists]

\* the revision ids the store gives the commits made for a request: the
\* store never gives the same id twice
FirstSha(r) == 2 * r.nonce - 1

TreeSha(r) == 2 * r.nonce

StoreCalls ==
    {"repo_exists", "delete_repo", "create_repo", "get_repo",
     "get_existing_files", "get_branch", "create_file", "create_git_commit",
     "ref.edit", "enable_github_pages"}

Init ==
    /\ repos = [t \in Tasks |-> NoRepo]
    /\ ledger = << >>
    /\ pc = [p \in Procs |-> "idle"]
    /\ request = [p \in Procs |-> NoRequest]
    /\ existing_files = [p \in Procs |-> EmptyDict]
    /\ generated_files = [p \in Procs |-> EmptyDict]
    /\ all_files = [p \in Procs |-> EmptyDict]
    /\ repo_empty = [p \in Procs |-> FALSE]
    /\ new_commit = [p \in Procs |-> 0]
    /\ commit_sha = [p \in Procs |-> 0]
    /\ outcome = [p \in Procs |-> NoOutcome]
    /\ log = [p \in Procs |-> << >>]
    /\ entry_history = [p \in Procs |-> 0]
    /\ pages_result = [p \in Procs |-> ""]
    /\ submitted = [t \in Tasks |-> [valid |-> FALSE, atts |-> EmptyDict]]
    /\ nreq = 0
    /\ at_start = [p \in Procs |-> NoSnapshot]

\* the event loop runs some handler instance
Busy == \E q \in Procs : pc[q] \notin {"idle", "await_post"}

Task(p) == request[p].task

Called(p, name) == log' = [log EXCEPT ![p] = Append(@, name)]

\* except Exception as e: raise HTTPException(status_code=500, detail=str(e))
\* an HTTPException prints as its status code and its detail
OuterExcept(status, detail) ==
    [status |-> 500, detail |-> <<status>> \o detail, commit_sha |-> 0]

\* the instance leaves process_task with a response
Respond(p, out) ==
    /\ pc' = [pc EXCEPT ![p] = "done"]
    /\ outcome' = [outcome EXCEPT ![p] = out]

\* a call of the content store raises GithubException
GithubError(p) == Respond(p, OuterExcept("GithubException", << >>))

\* step 1: the secret does not match, HTTPException(401) outside the try
RejectSecret(p) ==
    /\ pc[p] = "idle" /\ ~Busy
    /\ nreq' = nreq + 1
    /\ request' = [request EXCEPT ![p] = NoRequest]
    /\ at_start' = [at_start EXCEPT ![p] = NoSnapshot]
    /\ log' = [log EXCEPT ![p] = << >>]
    /\ Respond(p, [status |-> 401, detail |-> <<"Invalid secret">>,
                   commit_sha |-> 0])
    /\ UNCHANGED <<repos, ledger, locals, submitted,
                   pages_result>>

\* a mistaken step 2: the repository is fetched before the ledger is asked
FirstCallStoreFirst(round) == IF round = 1 THEN "repo_exists" ELSE "get_repo"

\* step 2: round 1 starts with repo_exists, any other round with
\* get_task_info
FirstCall(round) == IF round = 1 THEN "repo_exists" ELSE "get_task_info"

\* a request with the right secret enters the try block
Receive(p, tasks) ==
    /\ pc[p] = "idle" /\ ~Busy
    /\ \E r \in Requests(tasks, nreq + 1) :
        /\ request' = [request EXCEPT ![p] = r]
        /\ at_start' = [at_start EXCEPT ![p] = Snapshot(repos, ledger, r.task)]
        /\ pc' = [pc EXCEPT ![p] = FirstCall(r.round)]
        /\ submitted' = IF r.round = 1
                        THEN [submitted EXCEPT ![r.task] =
                                 [valid |-> FALSE, atts |-> EmptyDict]]
                        ELSE submitted
    /\ nreq' = nreq + 1
    /\ log' = [log EXCEPT ![p] = << >>]
    /\ outcome' = [outcome EXCEPT ![p] = NoOutcome]
    /\ UNCHANGED <<repos, ledger, locals,
                   pages_result>>

\* round 1: github_service.repo_exists; a GithubException of any kind
\* reads as "does not exist"
RepoExists(p) ==
    /\ pc[p] = "repo_exists"
    /\ \E found \in {repos[Task(p)].exists, FALSE} :
        pc' = [pc EXCEPT ![p] = IF found THEN "delete_repo" ELSE "create_repo"]
    /\ Called(p, "repo_exists")
    /\ UNCHANGED <<repos, ledger, request, at_start, locals, outcome, submitted, nreq,
                   pages_result>>

\* round 1: github_service.delete_repo
DeleteRepo(p) ==
    /\ pc[p] = "delete_repo"
    /\ repos' = [repos EXCEPT ![Task(p)] = NoRepo]
    /\ pc' = [pc EXCEPT ![p] = "create_repo"]
    /\ Called(p, "delete_repo")
    /\ UNCHANGED <<ledger, request, at_start, locals, outcome, submitted, nreq,
                   pages_result>>

\* round 1: github_service.create_repo; the name is taken: GithubException
CreateRepo(p) ==
    /\ pc[p] = "create_repo"
    /\ Called(p, "create_repo")
    /\ IF repos[Task(p)].exists
       THEN /\ GithubError(p)
            /\ UNCHANGED <<repos, existing_files>>
       ELSE /\ repos' = [repos EXCEPT ![Task(p)] = FreshRepo]
            /\ existing_files' = [existing_files EXCEPT ![p] = EmptyDict]
            /\ pc' = [pc EXCEPT ![p] = "generate_code"]
            /\ UNCHANGED outcome
    /\ UNCHANGED <<ledger, request, at_start, generated_files, all_files, repo_empty,
                   new_commit, commit_sha, entry_history, submitted,
                   nreq,
                   pages_result>>

\* the outcome of a round > 1 whose task has no ledger entry
LedgerMiss ==
    OuterExcept("400", <<"No existing repository found for task">>)

\* round > 1: get_task_info, HTTPException(400) when there is no entry
GetTaskInfo(p) ==
    /\ pc[p] = "get_task_info"
    /\ Called(p, "get_task_info")
    /\ IF NoTaskInfo(ledger, Task(p))
       THEN Respond(p, LedgerMiss)
       ELSE /\ pc' = [pc EXCEPT ![p] = "get_repo"]
            /\ UNCHANGED outcome
    /\ UNCHANGED <<repos, ledger, request, at_start, locals, submitted, nreq,
                   pages_result>>

\* round > 1: github_service.get_repo
GetRepo(p) ==
    /\ pc[p] = "get_repo"
    /\ Called(p, "get_repo")
    /\ IF repos[Task(p)].exists
       THEN /\ pc' = [pc EXCEPT ![p] = "get_existing_files"]
            /\ UNCHANGED outcome
       ELSE GithubError(p)
    /\ UNCHANGED <<repos, ledger, request, at_start, locals, submitted, nreq,
                   pages_result>>

\* what get_existing_files can return: the files of the branch, or the
\* empty mapping when get_contents raises GithubException (no branch yet,
\* or an error of the store)
ExistingFilesOutcomes(repo) ==
    IF repo.ref = 0 THEN {EmptyDict}
    ELSE {TreeToDict(TipTree(repo)), EmptyDict}

\* round > 1: github_service.get_existing_files
GetExistingFiles(p) ==
    /\ pc[p] = "get_existing_files"
    /\ Called(p, "get_existing_files")
    /\ \E files \in ExistingFilesOutcomes(repos[Task(p)]) :
        existing_files' = [existing_files EXCEPT ![p] = files]
    /\ pc' = [pc EXCEPT ![p] = "generate_code"]
    /\ UNCHANGED <<repos, ledger, request, at_start, generated_files, all_files,
                   repo_empty, new_commit, commit_sha, outcome, entry_history,
                   submitted, nreq,
                   pages_result>>

\* step 5 fails: generate_code raises, process_task turns it into
\* HTTPException(500), which the outer handler catches again
GenerateFails(p) ==
    /\ pc[p] = "generate_code"
    /\ Called(p, "generate_code")
    /\ \E e \in GenerationErrors :
        Respond(p, OuterExcept("500",
                    <<IF e = "ValueError" THEN "LLM generated invalid response"
                      ELSE "LLM generation failed">>))
    /\ UNCHANGED <<repos, ledger, request, at_start, locals, submitted, nreq,
                   pages_result>>

\* steps 3 to 6: the attachments are reconciled, generate_code returns a
\* file mapping, the files to commit are assembled
GenerateFilesFrom(p, replies) ==
    /\ pc[p] = "generate_code"
    /\ Called(p, "generate_code")
    /\ \E reply \in replies :
        LET r == request[p]
            attachments_dict == MergeAttachments(existing_files[p], r.attachments)
            merged == MergeFiles(r.round, existing_files[p], reply)
        IN  /\ generated_files' = [generated_files EXCEPT ![p] = reply]
            /\ IF MissingIndex(merged)
               THEN /\ Respond(p, OuterExcept("500",
                         <<"LLM did not generate required index.html file">>))
                    /\ UNCHANGED <<all_files, at_start>>
               ELSE /\ all_files' = [all_files EXCEPT ![p] =
                         FinalFiles(merged, AttachmentsJsContent(attachments_dict),
                                    r.checks, r.task)]
                    /\ pc' = [pc EXCEPT ![p] = "get_branch"]
                    /\ at_start' = [at_start EXCEPT ![p] = NoSnapshot]
                    /\ UNCHANGED outcome
    /\ UNCHANGED <<repos, ledger, request, existing_files, repo_empty,
                   new_commit, commit_sha, entry_history, submitted,
                   nreq,
                   pages_result>>

GenerateFiles(p) == GenerateFilesFrom(p, Replies)

(***************************************************************************)
(* GitHubService.commit_files.                                             *)
(***************************************************************************)
\* what repo_empty can become: get_branch raises GithubException when the
\* branch does not exist, and when the store fails
RepoEmptyOutcomes(repo) == {repo.ref = 0, TRUE}

\* commit_files: repo.get_branch(branch)
GetBranch(p) ==
    /\ pc[p] = "get_branch"
    /\ Called(p, "get_branch")
    /\ \E empty \in RepoEmptyOutcomes(repos[Task(p)]) :
        /\ repo_empty' = [repo_empty EXCEPT ![p] = empty]
        /\ pc' = [pc EXCEPT ![p] = IF empty THEN "create_file"
                                   ELSE "create_git_commit"]
    /\ entry_history' = [entry_history EXCEPT ![p] =
                            Len(BranchHistory(repos[Task(p)]))]
    /\ UNCHANGED <<repos, ledger, request, at_start, existing_files, generated_files,
                   all_files, new_commit, commit_sha, outcome, submitted, nreq,
                   pages_result>>

\* the parents of the commit repo.create_file makes: the branch tip, if any
TipParents(ref) == IF ref = 0 THEN << >> ELSE <<ref>>

\* commit_files, empty repository: repo.create_file of the first file, which
\* commits it to the branch; the store refuses a path the branch holds
CreateFile(p) ==
    LET repo == repos[Task(p)]
        first == Head(all_files[p])
        commit == NewCommit(FirstSha(request[p]),
                            LayerTree(TipTree(repo), <<first>>),
                            TipParents(repo.ref), all_files[p])
    IN  /\ pc[p] = "create_file"
        /\ Called(p, "create_file")
        /\ IF first[1] \in DOMAIN TipTree(repo)
           THEN /\ GithubError(p)
                /\ UNCHANGED <<repos, commit_sha>>
           ELSE /\ repos' = [repos EXCEPT ![Task(p)] =
                       [repo EXCEPT !.commits = @ \cup {commit},
                                    !.ref = commit.sha]]
                /\ IF Len(all_files[p]) = 1
                   THEN /\ commit_sha' = [commit_sha EXCEPT ![p] = commit.sha]
                        /\ pc' = [pc EXCEPT ![p] = "enable_github_pages"]
                   ELSE /\ pc' = [pc EXCEPT ![p] = "create_git_commit"]
                        /\ UNCHANGED commit_sha
                /\ UNCHANGED outcome
        /\ UNCHANGED <<ledger, request, at_start, existing_files, generated_files,
                       all_files, repo_empty, new_commit, entry_history,
                       submitted, nreq,
                   pages_result>>

\* the elements of the tree commit: all files, or the files after the
\* first one when create_file already committed that one
TreeElements(empty, files) == IF empty THEN Tail(files) ELSE files

\* a mistaken tree commit: it is created without a parent
CommitParentsNone(latest_commit) == << >>

\* the parents given to create_git_commit: [latest_commit]
CommitParents(latest_commit) == <<latest_commit>>

\* commit_files: get_git_ref, get_git_commit, create_git_tree and
\* create_git_commit; the commit object exists, the branch has not moved
CreateGitCommit(p) ==
    LET repo == repos[Task(p)]
        commit == NewCommit(TreeSha(request[p]),
                            LayerTree(TipTree(repo),
                                      TreeElements(repo_empty[p], all_files[p])),
                            CommitParents(repo.ref), all_files[p])
    IN  /\ pc[p] = "create_git_commit"
        /\ Called(p, "create_git_commit")
        /\ repos' = [repos EXCEPT ![Task(p)] =
                        [repo EXCEPT !.commits = @ \cup {commit}]]
        /\ new_commit' = [new_commit EXCEPT ![p] = commit.sha]
        /\ pc' = [pc EXCEPT ![p] = "ref.edit"]
        /\ UNCHANGED <<ledger, request, at_start, existing_files, generated_files,
                       all_files, repo_empty, commit_sha, outcome,
                       entry_history, pages_result, submitted, nreq>>

\* commit_files: ref.edit(new_commit.sha); return new_commit.sha
EditRef(p) ==
    /\ pc[p] = "ref.edit"
    /\ Called(p, "ref.edit")
    /\ repos' = [repos EXCEPT ![Task(p)].ref = new_commit[p]]
    /\ commit_sha' = [commit_sha EXCEPT ![p] = new_commit[p]]
    /\ pc' = [pc EXCEPT ![p] = "enable_github_pages"]
    /\ UNCHANGED <<ledger, request, at_start, existing_files, generated_files, all_files,
                   repo_empty, new_commit, outcome, entry_history, submitted, nreq,
                   pages_result>>

\* the calls whose GithubException reaches the outer handler
RaisingCalls ==
    {"delete_repo", "create_repo", "get_repo", "create_file",
     "create_git_commit", "ref.edit"}

\* a call of the content store fails (rate limit, authorization, server
\* error): GithubException, caught by the outer handler
StoreFails(p) ==
    /\ pc[p] \in RaisingCalls
    /\ Called(p, pc[p])
    /\ GithubError(p)
    /\ UNCHANGED <<repos, ledger, request, at_start, locals, submitted, nreq,
                   pages_result>>

\* the calls that catch GithubException themselves, and nothing else
GuardedCalls ==
    {"repo_exists", "get_existing_files", "get_branch", "enable_github_pages"}

\* a call that catches GithubException fails below the HTTP level
\* (connection refused or reset, read timeout): the exception of the
\* transport is no GithubException, it leaves the method and is caught by
\* the outer handler
TransportFails(p) ==
    /\ pc[p] \in GuardedCalls
    /\ Called(p, pc[p])
    /\ Respond(p, OuterExcept("ConnectionError", << >>))
    /\ UNCHANGED <<repos, ledger, request, at_start, locals, submitted, nreq,
                   pages_result>>

(***************************************************************************)
(* process_task, steps 8 to 11.                                            *)
(***************************************************************************)
\* how the request that activates serving can end: it succeeds, serving
\* is active already (409), or the store refuses it for another reason
PagesOutcomes == {"created", "conflict", "error"}

\* step 8: enable_github_pages; a GithubException of any status is
\* swallowed (409 at once, any other after the PUT was tried)
EnablePages(p) ==
    /\ pc[p] = "enable_github_pages"
    /\ Called(p, "enable_github_pages")
    /\ \E result \in PagesOutcomes :
        pages_result' = [pages_result EXCEPT ![p] = result]
    /\ pc' = [pc EXCEPT ![p] = "post"]
    /\ UNCHANGED <<repos, ledger, request, at_start, locals, outcome, submitted, nreq>>

\* a mistaken step 9: the ledger is written before the notification
PostAfterUpdate(p) ==
    /\ pc[p] = "post"
    /\ log' = [log EXCEPT ![p] = @ \o <<"update_task_info", "post">>]
    /\ ledger' = UpdateTaskInfo(ledger, request[p].task,
                    TaskInfo(request[p].task, commit_sha[p], request[p].round))
    /\ pc' = [pc EXCEPT ![p] = "await_post"]
    /\ UNCHANGED <<repos, request, at_start, locals, outcome, submitted, nreq,
                   pages_result>>

\* step 9: the notification is posted and the handler awaits the answer
Post(p) ==
    /\ pc[p] = "post"
    /\ Called(p, "post")
    /\ pc' = [pc EXCEPT ![p] = "await_post"]
    /\ UNCHANGED <<repos, ledger, request, at_start, locals, outcome, submitted, nreq,
                   pages_result>>

\* the attachments of the successful rounds of a task since its round 1
Submitted(old, r) ==
    IF r.round = 1 THEN [valid |-> TRUE, atts |-> DictUpdate(EmptyDict, r.attachments)]
    ELSE [valid |-> old.valid, atts |-> DictUpdate(old.atts, r.attachments)]

\* steps 10 and 11: the post returned (whatever its status), the ledger is
\* updated and the response is sent
PostReturns(p) ==
    /\ pc[p] = "await_post" /\ ~Busy
    /\ Called(p, "update_task_info")
    /\ ledger' = UpdateTaskInfo(ledger, Task(p),
                    TaskInfo(Task(p), commit_sha[p], request[p].round))
    /\ submitted' = [submitted EXCEPT ![Task(p)] = Submitted(@, request[p])]
    /\ Respond(p, [status |-> 200,
                   detail |-> <<"Successfully processed round">>,
                   commit_sha |-> commit_sha[p]])
    /\ UNCHANGED <<repos, request, at_start, locals, nreq,
                   pages_result>>

\* the post raises (timeout, transport error): the outer handler catches it
PostFails(p) ==
    /\ pc[p] = "await_post" /\ ~Busy
    /\ Respond(p, OuterExcept("httpx.HTTPError", << >>))
    /\ UNCHANGED <<repos, ledger, request, at_start, locals, log, submitted,
                   nreq,
                   pages_result>>

\* the response is out; the instance is free for the next request
Close(p) ==
    /\ pc[p] = "done"
    /\ pc' = [pc EXCEPT ![p] = "idle"]
    /\ request' = [request EXCEPT ![p] = NoRequest]
    /\ at_start' = [at_start EXCEPT ![p] = NoSnapshot]
    /\ existing_files' = [existing_files EXCEPT ![p] = EmptyDict]
    /\ generated_files' = [generated_files EXCEPT ![p] = EmptyDict]
    /\ all_files' = [all_files EXCEPT ![p] = EmptyDict]
    /\ repo_empty' = [repo_empty EXCEPT ![p] = FALSE]
    /\ new_commit' = [new_commit EXCEPT ![p] = 0]
    /\ commit_sha' = [commit_sha EXCEPT ![p] = 0]
    /\ entry_history' = [entry_history EXCEPT ![p] = 0]
    /\ pages_result' = [pages_result EXCEPT ![p] = ""]
    /\ outcome' = [outcome EXCEPT ![p] = NoOutcome]
    /\ log' = [log EXCEPT ![p] = << >>]
    /\ UNCHANGED <<repos, ledger, submitted, nreq>>

\* the steps of a handler instance that has a request, but the return of
\* generate_code
StepBesidesGeneration(p) ==
    \/ RepoExists(p)
    \/ DeleteRepo(p)
    \/ CreateRepo(p)
    \/ GetTaskInfo(p)
    \/ GetRepo(p)
    \/ GetExistingFiles(p)
    \/ GenerateFails(p)
    \/ GetBranch(p)
    \/ CreateFile(p)
    \/ CreateGitCommit(p)
    \/ EditRef(p)
    \/ StoreFails(p)
    \/ TransportFails(p)
    \/ EnablePages(p)
    \/ Post(p)
    \/ PostReturns(p)
    \/ PostFails(p)
    \/ Close(p)

\* the steps of a handler instance that has a request
Step(p) ==
    \/ StepBesidesGeneration(p)
    \/ GenerateFiles(p)

\* the rounds of one task, one request at a time: the caller holds the
\* per-task token for the whole round
SerialTasks == {"t1"}

SerialProcs == {1}

\* a request arrives at an idle instance, while fewer than n have arrived
Arrive(p, tasks, n) ==
    /\ nreq < n
    /\ \/ RejectSecret(p)
       \/ Receive(p, tasks)

Next ==
    \E p \in SerialProcs :
        \/ Arrive(p, SerialTasks, MaxRequests)
        \/ Step(p)

Spec == Init /\ [][Next]_vars

\* one request more, so that a round can follow two earlier rounds
NextRounds ==
    \E p \in SerialProcs :
        \/ Arrive(p, SerialTasks, MaxRequests + 1)
        \/ Step(p)

SpecRounds == Init /\ [][NextRounds]_vars

\* the tasks that have a round in flight
InFlight == {request[q].task : q \in {r \in Procs : pc[r] # "idle"}}

\* rounds of different tasks in flight at the same time: a request is
\* taken up while the other instance awaits its notification post, the
\* caller admits one round per task name
NextConcurrent ==
    \E p \in Procs :
        \/ Arrive(p, Tasks \ InFlight, MaxRequests)
        \/ Step(p)

SpecConcurrent == Init /\ [][NextConcurrent]_vars

\* rounds whose replies hold the entry-point texts
NextRepair ==
    \E p \in SerialProcs :
        \/ Arrive(p, SerialTasks, MaxRequests)
        \/ StepBesidesGeneration(p)
        \/ GenerateFilesFrom(p, EntryPointReplies)

SpecRepair == Init /\ [][NextRepair]_vars

(***************************************************************************)
(* Properties.                                                             *)
(***************************************************************************)
\* commit_files returned to the instance
Returned(p) == commit_sha[p] # 0

\* the instance is between the assembly of all_files and its response
Assembled(p) == all_files[p] # EmptyDict

Repo(p) == repos[Task(p)]

\* C1 as claimed: every successful call of commit_files adds exactly one
\* revision to the history of the branch, for an empty destination too.
C1_OneRevisionPerCall ==
    \A p \in Procs :
        Returned(p) =>
            Len(BranchHistory(Repo(p))) = entry_history[p] + 1

\* C1 amended: a successful call of commit_files returns one revision id,
\* the tip of the branch; the history of the branch grew by one revision
\* when the call found the branch (or was given a single file), and by two
\* when it took the empty-repository path with more than one file: the
\* revision create_file makes for the first file and the returned one.
C1_RevisionsPerCall ==
    \A p \in Procs :
        Returned(p) =>
            /\ Repo(p).ref = commit_sha[p]
            /\ Len(BranchHistory(Repo(p))) =
                  entry_history[p]
                  + (IF repo_empty[p] /\ Len(all_files[p]) > 1 THEN 2 ELSE 1)

\* a round returned from commit_files on the empty-repository path: the
\* branch it did not find has two revisions
C1_Witness ==
    \E p \in Procs :
        /\ Returned(p)
        /\ repo_empty[p] /\ Len(all_files[p]) > 1
        /\ entry_history[p] = 0
        /\ Len(BranchHistory(Repo(p))) = 2

\* C2: a request of a round > 1 whose task has no ledger entry makes no
\* call but the ledger lookup (no model call, no store call, no ledger
\* write, no notification) and ends in a failure.
C2_LedgerMissBeforeAnyCall ==
    \A p \in Procs :
        (pc[p] # "idle" /\ request[p].round > 1
            /\ NoTaskInfo(ledger, Task(p))) =>
            /\ pc[p] \in {"get_task_info", "done"}
            /\ \A i \in 1..Len(log[p]) : log[p][i] = "get_task_info"
            /\ pc[p] = "done" =>
                  outcome[p].status # 200 /\ log[p] = <<"get_task_info">>

\* a round 2 for an unknown task has ended, after the ledger lookup alone
C2_Witness ==
    \E p \in Procs :
        /\ pc[p] = "done" /\ request[p].round > 1
        /\ NoTaskInfo(ledger, Task(p))
        /\ outcome[p] = LedgerMiss
        /\ log[p] = <<"get_task_info">>

\* C3 as claimed: the ledger miss is reported as a client-input error (a
\* 4xx status), never with the status of the server-side failures.
C3_LedgerMissIsClientError ==
    \A p \in Procs :
        (pc[p] = "done" /\ request[p].round > 1
            /\ NoTaskInfo(ledger, Task(p))) =>
            outcome[p].status \in 400..499

\* the carry-forward rule for path k of a round > 1
CarriedForward(p, k) ==
    IF DictHas(generated_files[p], k)
    THEN /\ DictHas(all_files[p], k)
         /\ DictGet(all_files[p], k) = DictGet(generated_files[p], k)
    ELSE /\ DictHas(all_files[p], k)
         /\ DictGet(all_files[p], k) = DictGet(existing_files[p], k)

\* C4 as claimed: in a round > 1 every path of the prior files that the
\* reply lacks is in the final files with its prior content, and every
\* path in both has the content of the reply.
C4_CarryForward ==
    \A p \in Procs :
        (Assembled(p) /\ request[p].round > 1) =>
            \A k \in DictDomain(existing_files[p]) : CarriedForward(p, k)

\* the paths the assembly rewrites after the merge
Rewritten(p, k) ==
    \/ k = "attachments.js"
    \/ k = "LICENSE" /\ MitLicenseRequired(request[p].checks)
    \/ /\ k = "index.html"
       /\ LET merged == MergeFiles(request[p].round, existing_files[p],
                                   generated_files[p])
          IN  CloseHtml(DictGet(merged, k)) # DictGet(merged, k)

\* C4 amended: the carry-forward rule holds for every path except
\* attachments.js (left out of the carry-forward and regenerated from the
\* merged attachments), LICENSE when a check mentions "mit license"
\* (replaced by the MIT text) and an index.html that the truncation check
\* closes.
C4_CarryForwardButRewritten ==
    \A p \in Procs :
        (Assembled(p) /\ request[p].round > 1) =>
            \A k \in DictDomain(existing_files[p]) :
                ~Rewritten(p, k) => CarriedForward(p, k)

\* a round > 1 carried a prior path forward and replaced another one with
\* the different content of the reply
C4_Witness ==
    \E p \in Procs :
        /\ Assembled(p) /\ request[p].round > 1
        /\ \E k \in DictDomain(existing_files[p]) :
              /\ ~DictHas(generated_files[p], k) /\ ~Rewritten(p, k)
        /\ \E k \in DictDomain(existing_files[p]) :
              /\ DictHas(generated_files[p], k) /\ ~Rewritten(p, k)
              /\ DictGet(generated_files[p], k) # DictGet(existing_files[p], k)

\* C5: the files handed to commit_files hold index.html and LICENSE, in
\* every round; every commit in the store was made for such a mapping.
C5_EntryPointAndLicense ==
    /\ \A p \in Procs :
          pc[p] \in {"get_branch", "create_file", "create_git_commit",
                     "ref.edit"} =>
              {"index.html", "LICENSE"} \subseteq DictDomain(all_files[p])
    /\ \A t \in Tasks : \A c \in repos[t].commits :
          {"index.html", "LICENSE"} \subseteq DictDomain(c.files)

\* commit_files is entered with a license the reply did not hold
C5_Witness ==
    \E p \in Procs :
        /\ pc[p] = "get_branch"
        /\ ~DictHas(generated_files[p], "LICENSE")
        /\ ~DictHas(existing_files[p], "LICENSE")
        /\ ~MitLicenseRequired(request[p].checks)
        /\ DictGet(all_files[p], "LICENSE") = MitLicense

\* C6 as claimed: when commit_files has returned, the paths of the tree at
\* the new revision are exactly the paths of the files it was given.
C6_TreeEqualsFileSet ==
    \A p \in Procs :
        Returned(p) => DOMAIN TipTree(Repo(p)) = DictDomain(all_files[p])

\* the tree of commit c holds every file its call of commit_files was given
Complete(c) ==
    \A k \in DictDomain(c.files) :
        k \in DOMAIN c.tree /\ c.tree[k] = DictGet(c.files, k)

\* C7 as claimed: the tip of a branch is always a revision that holds the
\* complete file mapping of the round that made it; a revision with part of
\* the mapping is never the tip.
C7_TipIsComplete ==
    \A t \in Tasks :
        repos[t].ref # 0 => Complete(CommitOf(repos[t], repos[t].ref))

\* the attachments the manifest at the tip of a task's branch maps
Published(t) == LoadExistingAttachments(TreeToDict(TipTree(repos[t])))

\* C8 as claimed: when a round of a task has succeeded, the published
\* manifest maps every attachment name submitted in the successful rounds
\* since round 1 to the data URI of the latest round that submitted it.
C8_AttachmentsAccumulate ==
    \A p \in Procs :
        (pc[p] = "done" /\ outcome[p].status = 200
            /\ submitted[Task(p)].valid) =>
            \A i \in 1..Len(submitted[Task(p)].atts) :
                LET a == submitted[Task(p)].atts[i]
                IN  /\ DictHas(Published(Task(p)), a[1])
                    /\ DictGet(Published(Task(p)), a[1]) = a[2]

\* the post of the notification raised after commit_files had returned
NotificationFailed(p) ==
    /\ pc[p] = "done" /\ Returned(p)
    /\ log[p][Len(log[p])] = "post"

\* C9 as claimed: a failed notification does not fail the round: the
\* response is a success and the ledger holds the published revision.
C9_NotificationBestEffort ==
    \A p \in Procs :
        NotificationFailed(p) =>
            /\ outcome[p].status = 200
            /\ ~NoTaskInfo(ledger, Task(p))
            /\ ledger[Task(p)].commit_sha = commit_sha[p]

\* the ledger holds the revision and the round of the instance's request
LedgerHolds(p) ==
    /\ ~NoTaskInfo(ledger, Task(p))
    /\ ledger[Task(p)].commit_sha = commit_sha[p]
    /\ ledger[Task(p)].last_round = request[p].round

\* C10 as claimed: when the notification is sent the ledger already holds
\* the new revision id and round number.
C10_LedgerBeforeNotification ==
    \A p \in Procs : pc[p] = "await_post" => LedgerHolds(p)

\* the position of a call in the log of the instance, 0 when it is absent
CallIndex(p, name) ==
    IF \E i \in 1..Len(log[p]) : log[p][i] = name
    THEN CHOOSE i \in 1..Len(log[p]) : log[p][i] = name
    ELSE 0

\* C10 amended: in every successful round the order is publication, then
\* completion notification, then ledger update: while the notification is
\* awaited the round has not written the ledger, which does not hold the
\* new revision id yet; it holds the new revision id and the round number
\* when the round responds with success.
C10_NotificationBeforeLedger ==
    \A p \in Procs :
        /\ pc[p] = "await_post" =>
              /\ CallIndex(p, "update_task_info") = 0
              /\ ~LedgerHolds(p)
        /\ (pc[p] = "done" /\ outcome[p].status = 200) =>
              /\ LedgerHolds(p)
              /\ Returned(p)
              /\ 0 < CallIndex(p, "post")
              /\ CallIndex(p, "post") < CallIndex(p, "update_task_info")
              /\ \A i \in 1..Len(log[p]) :
                    log[p][i] \in StoreCalls => i < CallIndex(p, "post")

\* a round has responded with success
C10_Witness ==
    \E p \in Procs :
        /\ pc[p] = "done" /\ outcome[p].status = 200
        /\ LedgerHolds(p)

\* C11 as claimed: the round number the ledger records for a task never
\* decreases, whatever rounds are requested and in whatever order.
C11_LastRoundNeverDecreases ==
    [][\A t \in DOMAIN ledger :
          t \in DOMAIN ledger' /\ ledger'[t].last_round >= ledger[t].last_round]_vars

\* an instance writes the ledger entry of its task in this step
Writes(p) == pc[p] = "await_post" /\ pc'[p] = "done" /\ outcome'[p].status = 200

\* C12: with rounds of different tasks in flight together, a round that
\* succeeds leaves its own revision id and round number in the ledger, and
\* the entry of a task is changed only by the update of a round of that
\* task: no update loses or overwrites the entry of another task.
C12_IndependentEntries ==
    /\ [](\A p \in Procs :
            (pc[p] = "done" /\ outcome[p].status = 200) => LedgerHolds(p))
    /\ [][\A t \in DOMAIN ledger :
            /\ t \in DOMAIN ledger'
            /\ ledger'[t] # ledger[t] =>
                  \E p \in Procs : Writes(p) /\ Task(p) = t]_vars

\* the round that arrived first succeeds after the round of the other task,
\* which arrived while the first awaited its post, wrote its entry
C12_Witness ==
    \E p \in Procs :
        /\ pc[p] = "done" /\ outcome[p].status = 200
        /\ request[p].nonce = 1 /\ LedgerHolds(p)
        /\ \E t \in DOMAIN ledger :
              /\ t # Task(p)
              /\ ledger[t].commit_sha \in {FirstSha([nonce |-> 2]),
                                          TreeSha([nonce |-> 2])}

\* index.html as the merge left it, before the truncation check
MergedHtml(p) ==
    DictGet(MergeFiles(request[p].round, existing_files[p], generated_files[p]),
            "index.html")

\* index.html as handed to commit_files
FinalHtml(p) == DictGet(all_files[p], "index.html")

\* the text holds an opening <html tag and no closing one, in any case
Unclosed(html) ==
    /\ ContainsOpenHtml(Lower(html))
    /\ ~Contains(Lower(html), <<"</html>">>)

\* C13: after assembly an index.html that holds an opening <html tag and
\* no closing </html> tag (in any case) ends with </html>, the merged text
\* with the closing lines appended; an index.html that ends with </html>
\* is the merged text unchanged.
C13_TruncationRepair ==
    \A p \in Procs :
        Assembled(p) =>
            /\ Unclosed(MergedHtml(p)) =>
                  /\ EndsWith(FinalHtml(p), "</html>")
                  /\ FinalHtml(p) = MergedHtml(p)
                                      \o <<"\n", "</body>", "\n", "</html>">>
            /\ EndsWith(MergedHtml(p), "</html>") =>
                  FinalHtml(p) = MergedHtml(p)

\* an upper-case entry point that was cut off has been closed
C13_Witness ==
    \E p \in Procs :
        /\ Assembled(p)
        /\ MergedHtml(p) = <<"<HTML>", "<BODY>", "Hi">>
        /\ EndsWith(FinalHtml(p), "</html>")

\* the round made the request that activates serving, and it did not
\* succeed
ActivationFailed(p) ==
    /\ CallIndex(p, "enable_github_pages") > 0
    /\ pc[p] \notin {"enable_github_pages"}
    /\ pages_result[p] # "created"

\* C14 as claimed: a round that committed its files and whose activation of
\* serving failed (serving already active included) ends with success and
\* with the committed revision id in the ledger; rounds whose notification
\* failed afterwards are left aside.
C14_ActivationFailureNeverFailsRound ==
    \A p \in Procs :
        (pc[p] = "done" /\ Returned(p) /\ ActivationFailed(p)
            /\ ~NotificationFailed(p)) =>
            /\ outcome[p].status = 200
            /\ outcome[p].commit_sha = commit_sha[p]
            /\ LedgerHolds(p)

\* C15 as claimed: the extractor never returns an empty file mapping, so
\* no round has committed a revision (commit_files has returned) after
\* generate_code gave it a mapping of zero files.
C15_NeverEmptyFileSet ==
    \A p \in Procs : Returned(p) => generated_files[p] # EmptyDict

\* commit_files returns in this step, for instance p
CommitFilesReturns(p) == commit_sha'[p] # commit_sha[p] /\ commit_sha'[p] # 0

\* create_git_commit makes the commit object of instance p in this step
CommitCreated(p) == pc[p] = "create_git_commit" /\ pc'[p] = "ref.edit"

\* C16: the revision commit_files returns is the branch tip of the
\* destination when the call returns, and it has exactly one parent: the
\* tip of the branch right before the commit was created, which is still
\* the tip right before the branch moves to it; for a destination without
\* revisions that parent is the initializing revision of create_file.
C16_ReturnedRevisionIsTip ==
    [][\A p \in Procs :
         /\ CommitCreated(p) =>
               /\ repos[Task(p)].ref # 0
               /\ CommitOf(repos'[Task(p)], new_commit'[p]).parents
                      = <<repos[Task(p)].ref>>
         /\ CommitFilesReturns(p) =>
               /\ repos'[Task(p)].ref = commit_sha'[p]
               /\ CommitOf(repos'[Task(p)], commit_sha'[p]).parents
                      = <<repos[Task(p)].ref>>
               /\ (repo_empty[p] /\ entry_history[p] = 0) =>
                      /\ repos[Task(p)].ref = FirstSha(request[p])
                      /\ CommitOf(repos[Task(p)], FirstSha(request[p])).parents
                             = << >>]_vars

\* a later round has returned from commit_files on a destination with
\* revisions: the returned revision is the tip, and its one parent is the
\* revision of the round before, which the ledger still names
C16_Witness ==
    \E p \in Procs :
        /\ Returned(p)
        /\ pc[p] = "enable_github_pages"
        /\ ~repo_empty[p]
        /\ Task(p) \in DOMAIN ledger
        /\ Repo(p).ref = commit_sha[p]
        /\ CommitOf(Repo(p), commit_sha[p]).parents
               = <<ledger[Task(p)].commit_sha>>

\* no round of task t is between its arrival and its response
NoRoundInFlight(t) == \A q \in Procs : pc[q] \in {"idle", "done"} \/ Task(q) # t

\* C17 as claimed: whenever no round of a task is in flight and the ledger
\* has an entry for the task, the commit sha of the entry is the tip of the
\* branch of the task's repository, and last_round is the round of the
\* request whose commit is that tip.
C17_LedgerNamesTip ==
    \A t \in DOMAIN ledger :
        NoRoundInFlight(t) =>
            /\ repos[t].ref = ledger[t].commit_sha
            /\ \A p \in Procs :
                  (Task(p) = t /\ Returned(p) /\ repos[t].ref = commit_sha[p])
                      => ledger[t].last_round = request[p].round

\* the details of the responses of a round that stopped at generation, at
\* extraction or at the check for index.html
GenerationFailures ==
    {"LLM generated invalid response", "LLM generation failed",
     "LLM did not generate required index.html file"}

\* the instance has answered its request with one of these failures
FailedAtGeneration(p) ==
    /\ pc[p] = "done"
    /\ outcome[p].status = 500
    /\ Len(outcome[p].detail) = 2
    /\ outcome[p].detail[2] \in GenerationFailures

\* C18 as claimed: when a round has failed at generation, at extraction or
\* at the check for index.html, the tree of the branch tip of the task's
\* repository and the task's ledger entry are what they were when the
\* request arrived.
C18_FailureLeavesStateUnchanged ==
    \A p \in Procs :
        FailedAtGeneration(p) =>
            Snapshot(repos, ledger, Task(p)) = at_start[p]

============================================================================
